---- MODULE Spec2Model ----
(***************************************************************************)
(* A model of passwordforge.py: the delimiter splitter                     *)
(* (split_escaped_delimiters), the rule parser (parse_single_rule), the    *)
(* ruleset builders (read_rules and the interactive loop of main) and the  *)
(* rule engine (apply_rules).                                              *)
(*                                                                         *)
(* A Python str is modelled as a sequence of one-character strings, so     *)
(* that splitting, tokenizing, de-escaping and case mapping are computed   *)
(* character by character as the code computes them.                       *)
(***************************************************************************)
EXTENDS Integers, Sequences, FiniteSets, TLC

VARIABLES
    pc,                              \* "call" before the modelled call runs, "done" after it
    text, delimiter, parts,          \* split_escaped_delimiters: arguments, return value
    rule_text, parsed,               \* parse_single_rule: argument, return value
    mode, line, rulesets, before_rulesets, nlines,
                                     \* read_rules / main: the loop over rule lines
    result, case_insensitive, rule, before, applied, raised
                                     \* apply_rules: the loop over the rules

vars == <<pc, text, delimiter, parts, rule_text, parsed,
          mode, line, rulesets, before_rulesets, nlines,
          result, case_insensitive, rule, before, applied, raised>>

splitVars == <<text, delimiter, parts>>
parseVars == <<rule_text, parsed>>
readVars  == <<mode, line, rulesets, before_rulesets, nlines>>
applyVars == <<result, case_insensitive, rule, before, applied, raised>>

(***************************************************************************)
(* Bounds of the model.                                                    *)
(***************************************************************************)
MaxLineLen == 5      \* longest text handed to the splitter
MaxTokens  == 4      \* most tokens of a rule fragment
MaxFrags   == 2      \* most fragments of a generated rule line
MaxLines   == 2      \* most rule lines read
MaxWordLen == 2      \* longest word of the exhaustive word set
MaxOrd     == 2      \* largest instance number of a rule
MaxRules   == 2      \* longest rule list applied to a word

(***************************************************************************)
(* Characters and the str methods the program uses.                        *)
(***************************************************************************)
BS == "\\"
NL == "\n"

\* the ASCII letters: upper case to lower case, and back
ToLower == ("A" :> "a") @@ ("B" :> "b") @@ ("C" :> "c") @@ ("D" :> "d")
           @@ ("E" :> "e") @@ ("F" :> "f") @@ ("G" :> "g") @@ ("H" :> "h")
           @@ ("I" :> "i") @@ ("J" :> "j") @@ ("K" :> "k") @@ ("L" :> "l")
           @@ ("M" :> "m") @@ ("N" :> "n") @@ ("O" :> "o") @@ ("P" :> "p")
           @@ ("Q" :> "q") @@ ("R" :> "r") @@ ("S" :> "s") @@ ("T" :> "t")
           @@ ("U" :> "u") @@ ("V" :> "v") @@ ("W" :> "w") @@ ("X" :> "x")
           @@ ("Y" :> "y") @@ ("Z" :> "z")
ToUpper == ("a" :> "A") @@ ("b" :> "B") @@ ("c" :> "C") @@ ("d" :> "D")
           @@ ("e" :> "E") @@ ("f" :> "F") @@ ("g" :> "G") @@ ("h" :> "H")
           @@ ("i" :> "I") @@ ("j" :> "J") @@ ("k" :> "K") @@ ("l" :> "L")
           @@ ("m" :> "M") @@ ("n" :> "N") @@ ("o" :> "O") @@ ("p" :> "P")
           @@ ("q" :> "Q") @@ ("r" :> "R") @@ ("s" :> "S") @@ ("t" :> "T")
           @@ ("u" :> "U") @@ ("v" :> "V") @@ ("w" :> "W") @@ ("x" :> "X")
           @@ ("y" :> "Y") @@ ("z" :> "Z")

\* c.lower() and c.upper() of one character
CharLower(c) == IF c \in DOMAIN ToLower THEN ToLower[c] ELSE c
CharUpper(c) == IF c \in DOMAIN ToUpper THEN ToUpper[c] ELSE c

\* s.lower() of a str
StrLower(s) == [i \in 1..Len(s) |-> CharLower(s[i])]

IsSpace(c) == c \in {" ", "\t", NL}

\* s.strip()
RECURSIVE LStrip(_)
LStrip(s) == IF s # <<>> /\ IsSpace(Head(s)) THEN LStrip(Tail(s)) ELSE s
RECURSIVE RStrip(_)
RStrip(s) ==
    IF s # <<>> /\ IsSpace(s[Len(s)]) THEN RStrip(SubSeq(s, 1, Len(s) - 1)) ELSE s
Strip(s) == RStrip(LStrip(s))

\* s.startswith(p)
StartsWith(s, p) == Len(p) <= Len(s) /\ SubSeq(s, 1, Len(p)) = p

\* s.replace(old, new) for a non-empty old: leftmost, non-overlapping
RECURSIVE StrReplace(_, _, _)
StrReplace(s, old, new) ==
    IF Len(s) < Len(old) THEN s
    ELSE IF StartsWith(s, old)
         THEN new \o StrReplace(SubSeq(s, Len(old) + 1, Len(s)), old, new)
         ELSE <<Head(s)>> \o StrReplace(Tail(s), old, new)

\* s.split(): the maximal runs of non-whitespace characters
RECURSIVE SplitWs(_, _)
SplitWs(s, cur) ==
    IF s = <<>> THEN (IF cur = <<>> THEN <<>> ELSE <<cur>>)
    ELSE IF IsSpace(Head(s))
         THEN (IF cur = <<>> THEN <<>> ELSE <<cur>>) \o SplitWs(Tail(s), <<>>)
         ELSE SplitWs(Tail(s), Append(cur, Head(s)))
StrSplit(s) == SplitWs(s, <<>>)

\* sep.join(seq)
RECURSIVE Join(_, _)
Join(seq, sep) ==
    IF seq = <<>> THEN <<>>
    ELSE IF Len(seq) = 1 THEN seq[1]
    ELSE seq[1] \o sep \o Join(Tail(seq), sep)

\* all sequences over S of length at most n
SeqsUpTo(S, n) == UNION {[1..k -> S] : k \in 0..n}

(***************************************************************************)
(* split_escaped_delimiters (lines 121-127).                               *)
(***************************************************************************)
\* the regex (?<!\\)\|\| matches at index i: two pipes, not preceded by a backslash
ReMatchAt(s, i) ==
    /\ i + 1 <= Len(s)
    /\ s[i] = "|"
    /\ s[i + 1] = "|"
    /\ (i = 1 \/ s[i - 1] # BS)

\* re.split: scan left to right, cut at each leftmost match, resume after it
RECURSIVE ReSplit(_, _, _)
ReSplit(s, i, start) ==
    IF i > Len(s) THEN <<SubSeq(s, start, Len(s))>>
    ELSE IF ReMatchAt(s, i)
         THEN <<SubSeq(s, start, i - 1)>> \o ReSplit(s, i + 2, i + 2)
         ELSE ReSplit(s, i + 1, start)

split_escaped_delimiters(t, delim) ==
    LET ps == ReSplit(t, 1, 1)
    IN  [i \in 1..Len(ps) |-> Strip(StrReplace(ps[i], <<BS>> \o delim, delim))]

DefaultDelimiter == <<"|", "|">>

SplitAlphabet == {"a", BS, "|", " ", ";"}
SplitTexts == SeqsUpTo(SplitAlphabet, MaxLineLen)
Delimiters == {DefaultDelimiter, <<";">>}

NoRule == [type |-> "none"]
NotParsed == [ok |-> FALSE, warning |-> "none"]

SplitIdle == text = <<>> /\ delimiter = DefaultDelimiter /\ parts = <<>>
ParseIdle == rule_text = <<>> /\ parsed = NotParsed
ReadIdle ==
    /\ mode = "file" /\ line = <<>> /\ rulesets = <<>> /\ before_rulesets = <<>>
    /\ nlines = 0
ApplyIdle ==
    /\ result = <<>> /\ case_insensitive = FALSE /\ rule = NoRule
    /\ before = <<>> /\ applied = 0 /\ raised = "none"

\* the arguments of one call of split_escaped_delimiters
InitSplit ==
    /\ pc = "call"
    /\ text \in SplitTexts
    /\ delimiter \in Delimiters
    /\ parts = <<>>
    /\ ParseIdle /\ ReadIdle /\ ApplyIdle

\* the call of split_escaped_delimiters(text, delimiter)
SplitCall ==
    /\ pc = "call"
    /\ parts' = split_escaped_delimiters(text, delimiter)
    /\ pc' = "done"
    /\ UNCHANGED <<text, delimiter, parseVars, readVars, applyVars>>

SpecSplit == InitSplit /\ [][SplitCall]_vars

(***************************************************************************)
(* The splitter's contract, computed independently of the regex: scanning  *)
(* left to right, a backslash immediately followed by the delimiter is the *)
(* literal delimiter, a bare delimiter ends the fragment, and any other    *)
(* character (a stray backslash included) is copied.                       *)
(***************************************************************************)
RECURSIVE ContractSplit(_, _, _)
ContractSplit(s, delim, cur) ==
    IF s = <<>> THEN <<cur>>
    ELSE IF StartsWith(s, <<BS>> \o delim)
         THEN ContractSplit(SubSeq(s, Len(delim) + 2, Len(s)), delim, cur \o delim)
    ELSE IF StartsWith(s, delim)
         THEN <<cur>> \o ContractSplit(SubSeq(s, Len(delim) + 1, Len(s)), delim, <<>>)
    ELSE ContractSplit(Tail(s), delim, Append(cur, Head(s)))

ContractFragments(s, delim) ==
    LET ps == ContractSplit(s, delim, <<>>)
    IN  [i \in 1..Len(ps) |-> Strip(ps[i])]

\* C2: with the default delimiter the line is split exactly at the unescaped
\* occurrences of '||'; every escaped delimiter stays inside one fragment as
\* the literal '||' without its backslash; other backslashes are untouched.
C2_SplitsOnlyAtUnescapedDelimiters ==
    (pc = "done" /\ delimiter = DefaultDelimiter)
        => parts = ContractFragments(text, DefaultDelimiter)

\* C10: the delimiter argument is honoured: for a delimiter other than the
\* default the line is split at the unescaped occurrences of that delimiter,
\* its escaped occurrences are kept literally, and '||' causes no split.
C10_SplitHonoursDelimiterArgument ==
    (pc = "done" /\ delimiter # DefaultDelimiter)
        => parts = ContractFragments(text, delimiter)

(***************************************************************************)
(* parse_single_rule (lines 129-215).                                      *)
(***************************************************************************)
DigitValue == ("0" :> 0) @@ ("1" :> 1) @@ ("2" :> 2) @@ ("3" :> 3) @@ ("4" :> 4)
              @@ ("5" :> 5) @@ ("6" :> 6) @@ ("7" :> 7) @@ ("8" :> 8) @@ ("9" :> 9)

IsDigits(t) == t # <<>> /\ \A i \in 1..Len(t) : t[i] \in DOMAIN DigitValue

RECURSIVE DigitsValue(_)
DigitsValue(t) ==
    IF t = <<>> THEN 0 ELSE 10 * DigitsValue(SubSeq(t, 1, Len(t) - 1)) + DigitValue[t[Len(t)]]

\* int(t) succeeds: an optional sign followed by decimal digits
IsInt(t) == IF t # <<>> /\ Head(t) \in {"+", "-"} THEN IsDigits(Tail(t)) ELSE IsDigits(t)

\* int(t), where it succeeds
IntValue(t) ==
    IF Head(t) = "-" THEN 0 - DigitsValue(Tail(t))
    ELSE IF Head(t) = "+" THEN DigitsValue(Tail(t))
    ELSE DigitsValue(t)

W_pos   == <<"p", "o", "s">>
W_all   == <<"a", "l", "l">>
W_upper == <<"u", "p", "p", "e", "r">>
W_lower == <<"l", "o", "w", "e", "r">>
W_u     == <<"u">>
W_l     == <<"l">>

\* ["upper", "u", "lower", "l"]
OperationWords == {W_upper, W_u, W_lower, W_l}

\* lines 141-144 and 166-169: the operation name, normalized
NormalizeOperation(op) == IF op \in {W_u, W_upper} THEN "upper" ELSE "lower"

\* the values of a replace rule's "instance": the str "all" or an int
All == [kind |-> "all"]
Nth(n) == [kind |-> "nth", n |-> n]

PositionRule(position, operation) ==
    [type |-> "case_transform", target_type |-> "position",
     position |-> position, operation |-> operation]
CharacterRule(char, instance, operation) ==
    [type |-> "case_transform", target_type |-> "character",
     char |-> char, instance |-> instance, operation |-> operation]
ReplaceRule(char, instance, replacement) ==
    [type |-> "replace", char |-> char, instance |-> instance,
     replacement |-> replacement]

\* a returned rule; a printed warning followed by return None
Parsed(r) == [ok |-> TRUE, rule |-> r]
Warning(w) == [ok |-> FALSE, warning |-> w]

\* lines 134-157: "pos X upper/lower"
ParsePosition(ps) ==
    IF ~IsInt(ps[2]) THEN Warning("Invalid position value")
    ELSE LET operation == StrLower(ps[3])
         IN  IF operation \in OperationWords
             THEN Parsed(PositionRule(IntValue(ps[2]), NormalizeOperation(operation)))
             ELSE Warning("Invalid operation")

\* lines 160-186: "char instance upper/lower"
ParseCharacter(ps) ==
    IF StrLower(ps[2]) = W_all THEN Warning("'all' not supported for case transformation")
    ELSE IF IsInt(ps[2])
         THEN Parsed(CharacterRule(ps[1], IntValue(ps[2]),
                                   NormalizeOperation(StrLower(ps[3]))))
         ELSE Warning("Invalid instance value")

\* lines 189-212: "char instance replacement"
ParseReplace(ps) ==
    IF StrLower(ps[2]) = W_all THEN Parsed(ReplaceRule(ps[1], All, ps[3]))
    ELSE IF IsInt(ps[2]) THEN Parsed(ReplaceRule(ps[1], Nth(IntValue(ps[2])), ps[3]))
    ELSE Warning("Invalid instance value")

\* the dispatch with the character shape tried before the position shape
DispatchCharacterFirst(ps) ==
    IF Len(ps) = 3 /\ StrLower(ps[3]) \in OperationWords THEN ParseCharacter(ps)
    ELSE IF Len(ps) = 3 /\ StrLower(ps[1]) = W_pos THEN ParsePosition(ps)
    ELSE IF Len(ps) >= 3 THEN ParseReplace(ps)
    ELSE Warning("Invalid rule format")

\* the if / elif / elif / else chain over the tokens of rule_text.split()
DispatchTokens(ps) ==
    IF Len(ps) = 3 /\ StrLower(ps[1]) = W_pos THEN ParsePosition(ps)
    ELSE IF Len(ps) = 3 /\ StrLower(ps[3]) \in OperationWords THEN ParseCharacter(ps)
    ELSE IF Len(ps) >= 3 THEN ParseReplace(ps)
    ELSE Warning("Invalid rule format")

parse_single_rule(rt) == DispatchTokens(StrSplit(rt))

\* the tokens the generated fragments are made of
ParseTokens ==
    { W_pos, <<"P", "o", "s">>, W_upper, <<"U">>, <<"L">>, W_all, <<"A", "l", "l">>,
      <<"2">>, <<"0">>, <<"-", "1">>, <<"z">> }
ParseTexts == {Join(ts, <<" ">>) : ts \in SeqsUpTo(ParseTokens, MaxTokens)}

\* the argument of one call of parse_single_rule
InitParse ==
    /\ pc = "call"
    /\ rule_text \in ParseTexts
    /\ parsed = NotParsed
    /\ SplitIdle /\ ReadIdle /\ ApplyIdle

\* the call of parse_single_rule(rule_text)
ParseCall ==
    /\ pc = "call"
    /\ parsed' = parse_single_rule(rule_text)
    /\ pc' = "done"
    /\ UNCHANGED <<rule_text, splitVars, readVars, applyVars>>

SpecParse == InitParse /\ [][ParseCall]_vars

\* C6: every rule the parser returns has strictly positive ordinals: the
\* position of a position rule, the instance of a character rule and a
\* numeric instance of a replace rule are all >= 1.
C6_ParsedOrdinalsArePositive ==
    (pc = "done" /\ parsed.ok) =>
        LET r == parsed.rule
        IN  /\ (r.type = "case_transform" /\ r.target_type = "position")
                => r.position >= 1
            /\ (r.type = "case_transform" /\ r.target_type = "character")
                => r.instance >= 1
            /\ (r.type = "replace" /\ r.instance.kind = "nth") => r.instance.n >= 1

IsPositionShape(ps) == Len(ps) = 3 /\ StrLower(ps[1]) = W_pos
IsCharacterShape(ps) ==
    Len(ps) = 3 /\ ~IsPositionShape(ps) /\ StrLower(ps[3]) \in OperationWords

\* C7: first matching shape wins.  A 3-token fragment starting with 'pos'
\* gives a position rule or a warning; otherwise a 3-token fragment ending in
\* upper|u|lower|l gives a character rule with the normalized operation or a
\* warning (always a warning for 'all'); any other fragment of 3 or more
\* tokens gives a replace rule with the third token as replacement, or a
\* warning exactly when token 2 is neither 'all' nor an integer; fewer than
\* 3 tokens give a warning.
C7_FirstMatchingShapeWins ==
    pc = "done" =>
        LET ps == StrSplit(rule_text)
            r  == parsed.rule
        IN  IF Len(ps) < 3 THEN ~parsed.ok
            ELSE IF IsPositionShape(ps)
                 THEN parsed.ok =>
                        /\ r.type = "case_transform"
                        /\ r.target_type = "position"
            ELSE IF IsCharacterShape(ps)
                 THEN /\ StrLower(ps[2]) = W_all => ~parsed.ok
                      /\ parsed.ok =>
                            /\ r.type = "case_transform"
                            /\ r.target_type = "character"
                            /\ r.char = ps[1]
                            /\ r.operation =
                                 (IF StrLower(ps[3]) \in {W_u, W_upper}
                                  THEN "upper" ELSE "lower")
            ELSE /\ parsed.ok <=> (StrLower(ps[2]) = W_all \/ IsInt(ps[2]))
                 /\ parsed.ok =>
                       /\ r.type = "replace"
                       /\ r.char = ps[1]
                       /\ r.replacement = ps[3]

\* a fragment that fits the position shape and the character shape at once
\* has been parsed into a position rule
C7_Witness ==
    /\ pc = "done"
    /\ LET ps == StrSplit(rule_text)
       IN  /\ Len(ps) = 3
           /\ StrLower(ps[1]) = W_pos
           /\ StrLower(ps[3]) \in OperationWords
    /\ parsed.ok
    /\ parsed.rule.target_type = "position"

(***************************************************************************)
(* read_rules (lines 217-244) and the interactive loop of main (lines      *)
(* 282-296): one ruleset per line.                                         *)
(***************************************************************************)
\* the loop over rule_parts that stops at the first rejected fragment
RECURSIVE ParsePartsUntilRejected(_)
ParsePartsUntilRejected(ps) ==
    IF ps = <<>> THEN <<>>
    ELSE LET r == parse_single_rule(Head(ps))
         IN  IF r.ok THEN <<r.rule>> \o ParsePartsUntilRejected(Tail(ps)) ELSE <<>>

\* lines 232-236 and 288-293: the loop over rule_parts, keeping the parsed rules
RECURSIVE ParseParts(_)
ParseParts(ps) ==
    IF ps = <<>> THEN <<>>
    ELSE LET r == parse_single_rule(Head(ps))
         IN  (IF r.ok THEN <<r.rule>> ELSE <<>>) \o ParseParts(Tail(ps))

\* lines 229-239 and 288-296: the ruleset of one line, appended when non-empty
AppendRuleset(rs, l) ==
    LET ruleset == ParseParts(split_escaped_delimiters(l, DefaultDelimiter))
    IN  IF ruleset # <<>> THEN Append(rs, ruleset) ELSE rs

\* lines 224-226: a line read_rules skips
IsSkipped(l) == Strip(l) = <<>> \/ StartsWith(Strip(l), <<"#">>)

W_done == <<"d", "o", "n", "e">>

\* rule fragments: two that parse, two that do not; the generated lines are
\* made of the first three
F_o_1_0      == <<"o", " ", "1", " ", "0">>
F_pos_2_u    == <<"p", "o", "s", " ", "2", " ", "u">>
F_o_1        == <<"o", " ", "1">>
F_z_all_up   == <<"z", " ", "a", "l", "l", " ", "u", "p", "p", "e", "r">>
LineFragments == {F_o_1_0, F_pos_2_u, F_o_1}
DelimiterText == <<" ", "|", "|", " ">>

RuleLines ==
    {Join(fs, DelimiterText) : fs \in SeqsUpTo(LineFragments, MaxFrags)}
    \cup { <<" ", " ">>,
           <<"#", " ", "c">>,
           <<"#", " ", "1", " ", "x">>,
           <<" ", "#", "o", " ", "1", " ", "0">>,
           <<"a", " ", "1", " ", BS, "|", "|">>,
           <<"o", " ", "1", NL>>,
           <<"e", " ", "a", "l", "l", " ", "3", NL>>,
           Join(<<F_o_1_0, F_o_1, F_pos_2_u>>, DelimiterText),
           Join(<<F_z_all_up, F_o_1_0, F_o_1>>, <<"|", "|">>) }

InitRead ==
    /\ pc = "reading"
    /\ mode \in {"file", "interactive"}
    /\ line = <<>> /\ rulesets = <<>> /\ before_rulesets = <<>> /\ nlines = 0
    /\ SplitIdle /\ ParseIdle /\ ApplyIdle

\* read_rules: one iteration of "for line in f"
ReadRulesLine ==
    /\ pc = "reading" /\ mode = "file" /\ nlines < MaxLines
    /\ \E l \in RuleLines :
        /\ line' = l
        /\ rulesets' = IF IsSkipped(l) THEN rulesets ELSE AppendRuleset(rulesets, Strip(l))
    /\ before_rulesets' = rulesets
    /\ nlines' = nlines + 1
    /\ UNCHANGED <<pc, mode, splitVars, parseVars, applyVars>>

\* read_rules: the end of the file, return rulesets
ReadRulesReturn ==
    /\ pc = "reading" /\ mode = "file"
    /\ pc' = "done"
    /\ UNCHANGED <<readVars, splitVars, parseVars, applyVars>>

\* main: one iteration of the interactive "while True" loop
InteractiveLine ==
    /\ pc = "reading" /\ mode = "interactive" /\ nlines < MaxLines
    /\ \E rule_input \in RuleLines \cup {W_done, <<"D", "o", "n", "e">>} :
        /\ line' = rule_input
        /\ IF StrLower(rule_input) = W_done
           THEN pc' = "done" /\ rulesets' = rulesets
           ELSE pc' = pc /\ rulesets' = AppendRuleset(rulesets, rule_input)
    /\ before_rulesets' = rulesets
    /\ nlines' = nlines + 1
    /\ UNCHANGED <<mode, splitVars, parseVars, applyVars>>

NextRead == ReadRulesLine \/ ReadRulesReturn \/ InteractiveLine

SpecRead == InitRead /\ [][NextRead]_vars

\* the last line read went through the splitter and the parser: it was not
\* skipped as a blank or comment line of the rule file, and was not "done"
LineWasParsed ==
    /\ nlines > 0
    /\ mode = "file" => ~IsSkipped(line)
    /\ mode = "interactive" => StrLower(line) # W_done

\* C8: drop-and-continue.  The ruleset built from a line is the in-order
\* subsequence of the rules of its fragments that parse; the line adds a
\* ruleset, after those of the earlier lines, exactly when one of its
\* fragments parses; every ruleset is non-empty.
C8_DropAndContinue ==
    /\ \A i \in 1..Len(rulesets) : rulesets[i] # <<>>
    /\ LineWasParsed =>
        LET frags == split_escaped_delimiters(line, DefaultDelimiter)
            good  == {i \in 1..Len(frags) : parse_single_rule(frags[i]).ok}
            n     == Len(before_rulesets)
        IN  IF good = {} THEN rulesets = before_rulesets
            ELSE /\ Len(rulesets) = n + 1
                 /\ SubSeq(rulesets, 1, n) = before_rulesets
                 /\ Len(rulesets[n + 1]) = Cardinality(good)
                 /\ \A i \in good :
                      rulesets[n + 1][Cardinality({j \in good : j <= i})]
                          = parse_single_rule(frags[i]).rule

\* a second line whose middle fragment is rejected and whose first and last
\* fragments parse has added a two-rule ruleset after an earlier one
C8_Witness ==
    /\ LineWasParsed
    /\ before_rulesets # <<>>
    /\ LET frags == split_escaped_delimiters(line, DefaultDelimiter)
       IN  /\ Len(frags) = 3
           /\ parse_single_rule(frags[1]).ok
           /\ ~parse_single_rule(frags[2]).ok
           /\ parse_single_rule(frags[3]).ok
    /\ Len(rulesets) = Len(before_rulesets) + 1
    /\ Len(rulesets[Len(rulesets)]) = 2

(***************************************************************************)
(* apply_rules (lines 10-119): the loop over the rules, one rule at a time.*)
(***************************************************************************)
\* a value computed, or an exception raised
Value(v) == [ok |-> TRUE, val |-> v]
Raise(e) == [ok |-> FALSE, error |-> e]

\* lines 41 and 91 (c.lower() == char_lower), lines 52 and 104 (c == char)
Matches(c, char, ci) ==
    IF ci THEN <<CharLower(c)>> = StrLower(char) ELSE <<c>> = char

\* lines 73-76, 94-97, 107-110: the character, upper- or lowercased
Transformed(c, operation) ==
    IF operation = "upper" THEN CharUpper(c)
    ELSE IF operation = "lower" THEN CharLower(c)
    ELSE c

\* the replacement template of pattern.sub: the escapes of a backslash
TemplateEscape == ("n" :> NL) @@ ("t" :> "\t") @@ (BS :> BS)
IsAsciiLetter(c) == c \in DOMAIN ToLower \/ c \in DOMAIN ToUpper
IsGroupDigit(c) == c \in DOMAIN DigitValue /\ c # "0"

\* line 28, the template of pattern.sub(replacement, ...): a backslash with a
\* known escape is that character, with another letter, a group number or
\* nothing after it is an error, and before any other character stays as it is
\* (the escapes \a \b \f \r \v \0 and \g<...> occur in no replacement here)
RECURSIVE ExpandTemplate(_)
ExpandTemplate(r) ==
    IF r = <<>> THEN Value(<<>>)
    ELSE IF Head(r) # BS
         THEN LET rest == ExpandTemplate(Tail(r))
              IN  IF rest.ok THEN Value(<<Head(r)>> \o rest.val) ELSE rest
    ELSE IF Len(r) = 1 THEN Raise("re.error")
    ELSE LET rest == ExpandTemplate(SubSeq(r, 3, Len(r)))
         IN  IF r[2] \in DOMAIN TemplateEscape
             THEN (IF rest.ok THEN Value(<<TemplateEscape[r[2]]>> \o rest.val) ELSE rest)
             ELSE IF IsAsciiLetter(r[2]) \/ IsGroupDigit(r[2]) THEN Raise("re.error")
             ELSE (IF rest.ok THEN Value(<<BS, r[2]>> \o rest.val) ELSE rest)

\* line 27-28: every leftmost non-overlapping match of char, ignoring case,
\* replaced by new
RECURSIVE SubIgnoreCase(_, _, _)
SubIgnoreCase(s, char, new) ==
    IF Len(s) < Len(char) THEN s
    ELSE IF StrLower(SubSeq(s, 1, Len(char))) = StrLower(char)
         THEN new \o SubIgnoreCase(SubSeq(s, Len(char) + 1, Len(s)), char, new)
         ELSE <<Head(s)>> \o SubIgnoreCase(Tail(s), char, new)

\* lines 24-31: instance == "all"
ReplaceAll(s, char, replacement, ci) ==
    IF ci
    THEN LET template == ExpandTemplate(replacement)
         IN  IF template.ok THEN Value(SubIgnoreCase(s, char, template.val))
             ELSE template
    ELSE Value(StrReplace(s, char, replacement))

\* lines 40-48 and 51-59: the loop over the characters, count matches so far
RECURSIVE ScanReplace(_, _, _, _, _, _)
ScanReplace(s, char, instance, replacement, ci, count) ==
    IF s = <<>> THEN <<>>
    ELSE IF Matches(Head(s), char, ci)
         THEN (IF count + 1 = instance THEN replacement ELSE <<Head(s)>>)
              \o ScanReplace(Tail(s), char, instance, replacement, ci, count + 1)
         ELSE <<Head(s)>>
              \o ScanReplace(Tail(s), char, instance, replacement, ci, count)

\* the scan with count starting at 1 instead of 0
ReplaceNthCountFromOne(s, char, instance, replacement, ci) ==
    ScanReplace(s, char, instance, replacement, ci, 1)

\* lines 33-61: the nth instance replaced
ReplaceNth(s, char, instance, replacement, ci) ==
    ScanReplace(s, char, instance, replacement, ci, 0)

\* lines 90-101 and 103-114: the loop over the characters; new_result and count
RECURSIVE ScanTransform(_, _, _, _, _, _)
ScanTransform(s, char, instance, operation, ci, count) ==
    IF s = <<>> THEN [new_result |-> <<>>, count |-> count]
    ELSE LET hit  == Matches(Head(s), char, ci)
             rest == ScanTransform(Tail(s), char, instance, operation, ci,
                                   IF hit THEN count + 1 ELSE count)
             c    == IF hit /\ count + 1 = instance
                     THEN Transformed(Head(s), operation) ELSE Head(s)
         IN  [new_result |-> <<c>> \o rest.new_result, count |-> rest.count]

\* the scan that transforms every match from the nth on
RECURSIVE ScanTransformFromNth(_, _, _, _, _, _)
ScanTransformFromNth(s, char, instance, operation, ci, count) ==
    IF s = <<>> THEN [new_result |-> <<>>, count |-> count]
    ELSE LET hit  == Matches(Head(s), char, ci)
             rest == ScanTransformFromNth(Tail(s), char, instance, operation, ci,
                                          IF hit THEN count + 1 ELSE count)
             c    == IF hit /\ count + 1 >= instance
                     THEN Transformed(Head(s), operation) ELSE Head(s)
         IN  [new_result |-> <<c>> \o rest.new_result, count |-> rest.count]

\* the character transform that acts on every match from the nth on
TransformCharacterFromNth(s, char, instance, operation, ci) ==
    IF char = <<>> THEN s
    ELSE LET scan == ScanTransformFromNth(s, char, instance, operation, ci, 0)
         IN  IF scan.count > 0 THEN scan.new_result ELSE s

\* lines 78-117: the nth instance case-transformed
TransformCharacter(s, char, instance, operation, ci) ==
    IF char = <<>> THEN s
    ELSE LET scan == ScanTransform(s, char, instance, operation, ci, 0)
         IN  IF scan.count > 0 THEN scan.new_result ELSE s

\* lines 66-77: chars[position-1], where a negative index counts from the end
\* of the list and an index before its start raises IndexError
TransformPosition(s, position, operation) ==
    IF position <= Len(s)
    THEN LET idx == position - 1
             i   == IF idx >= 0 THEN idx ELSE idx + Len(s)
         IN  IF i < 0 THEN Raise("IndexError")
             ELSE Value([s EXCEPT ![i + 1] = Transformed(s[i + 1], operation)])
    ELSE Value(s)

\* lines 18-117: the body of "for rule in rules"
ApplyRule(s, r, ci) ==
    IF r.type = "replace"
    THEN IF r.instance.kind = "all"
         THEN ReplaceAll(s, r.char, r.replacement, ci)
         ELSE Value(ReplaceNth(s, r.char, r.instance.n, r.replacement, ci))
    ELSE IF r.type = "case_transform"
    THEN IF r.target_type = "position"
         THEN TransformPosition(s, r.position, r.operation)
         ELSE Value(TransformCharacter(s, r.char, r.instance, r.operation, ci))
    ELSE Value(s)

\* the words, the rule fields and the rules the engine is run on
WordAlphabet == {"a", "A"}
W_password == <<"p", "a", "s", "s", "w", "o", "r", "d">>
Words == SeqsUpTo(WordAlphabet, MaxWordLen) \cup {W_password}
RuleChars == {<<"a">>, <<"A">>, <<"s">>}
Replacements == {<<"$">>, <<BS, "n">>, <<BS>>}
Instances == 0..MaxOrd
Positions == (0 - 1)..(MaxWordLen + 1)
Operations == {"upper", "lower"}
Rules ==
    {ReplaceRule(c, All, r) : c \in RuleChars, r \in Replacements}
    \cup {ReplaceRule(c, Nth(n), r) : c \in RuleChars, n \in Instances, r \in Replacements}
    \cup {CharacterRule(c, n, op) : c \in RuleChars, n \in Instances, op \in Operations}
    \cup {PositionRule(p, op) : p \in Positions, op \in Operations}

\* the arguments of one call of apply_rules; line 16, result = word
InitApply ==
    /\ pc = "applying"
    /\ result \in Words
    /\ case_insensitive \in BOOLEAN
    /\ rule = NoRule /\ before = result /\ applied = 0 /\ raised = "none"
    /\ SplitIdle /\ ParseIdle /\ ReadIdle

\* one iteration of "for rule in rules"; an exception ends the call
ApplyNextRule ==
    /\ pc = "applying" /\ applied < MaxRules
    /\ \E r \in Rules :
        LET out == ApplyRule(result, r, case_insensitive)
        IN  /\ rule' = r
            /\ IF out.ok
               THEN result' = out.val /\ raised' = "none" /\ pc' = pc
               ELSE result' = result /\ raised' = out.error /\ pc' = "raised"
    /\ before' = result
    /\ applied' = applied + 1
    /\ UNCHANGED <<case_insensitive, splitVars, parseVars, readVars>>

\* line 119: return result
ApplyReturn ==
    /\ pc = "applying"
    /\ pc' = "done"
    /\ UNCHANGED <<applyVars, splitVars, parseVars, readVars>>

NextApply == ApplyNextRule \/ ApplyReturn

SpecApply == InitApply /\ [][NextApply]_vars

\* C1: apply_rules never fails: no rule that the parser can return raises an
\* error, whatever the word and the matching mode.
C1_ApplyNeverRaises == raised = "none"

IsReplaceAll(r) == r.type = "replace" /\ r.instance.kind = "all"
IsReplaceNth(r) == r.type = "replace" /\ r.instance.kind = "nth"
IsCharacterTransform(r) == r.type = "case_transform" /\ r.target_type = "character"
IsPositionTransform(r) == r.type = "case_transform" /\ r.target_type = "position"

RECURSIVE Concat(_)
Concat(ss) == IF ss = <<>> THEN <<>> ELSE Head(ss) \o Concat(Tail(ss))

\* the indices of s whose character matches the one-character char
MatchIndices(s, char, ci) == {i \in 1..Len(s) : Matches(s[i], char, ci)}

\* C3: Replace with instance All puts the replacement, character for
\* character, in place of every matching character and leaves the others
\* unchanged, in both matching modes.
C3_ReplaceAllInsertsVerbatim ==
    (applied > 0 /\ IsReplaceAll(rule)) =>
        /\ raised = "none"
        /\ result = Concat([i \in 1..Len(before) |->
                              IF i \in MatchIndices(before, rule.char, case_insensitive)
                              THEN rule.replacement ELSE <<before[i]>>])

\* s with the one character at index i replaced by the string x
Spliced(s, i, x) == SubSeq(s, 1, i - 1) \o x \o SubSeq(s, i + 1, Len(s))

\* the index of the nth match of char in s, as a set: empty when n is not reached
NthMatch(s, char, n, ci) ==
    LET ms == MatchIndices(s, char, ci)
    IN  {i \in ms : Cardinality({j \in ms : j <= i}) = n}

\* C4: Replace Nth(n) and CaseTransform CharacterInstance(char, n) act on
\* exactly the character at which the count of matches reaches n, in both
\* matching modes; every other character passes through unchanged, and the
\* word is unchanged when n is not reached.
C4_NthInstanceOnly ==
    (applied > 0 /\ (IsReplaceNth(rule) \/ IsCharacterTransform(rule))) =>
        LET n  == IF IsReplaceNth(rule) THEN rule.instance.n ELSE rule.instance
            at == NthMatch(before, rule.char, n, case_insensitive)
        IN  /\ raised = "none"
            /\ at = {} => result = before
            /\ \A i \in at :
                 result = Spliced(before, i,
                            IF IsReplaceNth(rule) THEN rule.replacement
                            ELSE IF rule.operation = "upper"
                                 THEN <<CharUpper(before[i])>>
                                 ELSE <<CharLower(before[i])>>)

\* in case-insensitive mode the second of at least two matches, of which the
\* first differs in case from the rule's char, has been acted on
C4_Witness ==
    /\ applied > 0
    /\ IsReplaceNth(rule) \/ IsCharacterTransform(rule)
    /\ case_insensitive
    /\ LET n  == IF IsReplaceNth(rule) THEN rule.instance.n ELSE rule.instance
           ms == MatchIndices(before, rule.char, case_insensitive)
       IN  /\ n = 2
           /\ Cardinality(ms) >= 2
           /\ \E i \in ms : <<before[i]>> # rule.char
    /\ result # before

\* C5: CaseTransform Position(p) acts on the word left by the earlier rules:
\* for 1 <= p <= length the character at index p is transformed and nothing
\* else changes; for every other p the word is unchanged.
C5_PositionWithinWordOnly ==
    (applied > 0 /\ IsPositionTransform(rule)) =>
        /\ raised = "none"
        /\ result =
             IF 1 <= rule.position /\ rule.position <= Len(before)
             THEN [before EXCEPT ![rule.position] =
                     IF rule.operation = "upper" THEN CharUpper(@) ELSE CharLower(@)]
             ELSE before

R_s_2_dollar == ReplaceRule(<<"s">>, Nth(2), <<"$">>)

\* the one rule Replace('s', Nth(2), "$") has been applied to "password" in
\* case-sensitive mode
C9_Witness ==
    /\ applied = 1
    /\ before = W_password
    /\ ~case_insensitive
    /\ rule = R_s_2_dollar

\* C9 as stated: apply("password", [Replace('s', Nth(2), "$")]) = "pa$sword"
C9_ResultIsPaDollarSword ==
    C9_Witness => result = <<"p", "a", "$", "s", "w", "o", "r", "d">>

\* C9 as amended: apply("password", [Replace('s', Nth(2), "$")]) = "pas$word",
\* the second 's' replaced and the first 's' untouched
C9_ResultIsPasDollarWord ==
    C9_Witness => result = <<"p", "a", "s", "$", "w", "o", "r", "d">>

====
